---------------------------- MODULE Spec2Model ----------------------------
(* A model of tap_pipefy (src/tap_pipefy/__init__.py): the cursor          *)
(* paginators get_cards / get_table_records, the schema derivation of      *)
(* discovery and the emission order of sync_organization.                  *)
(*                                                                         *)
(* Python values are modelled as follows.  None is the string "None".      *)
(* A JSON object whose keys may be missing or null is a record that holds, *)
(* next to each key's value, a tag "absent" | "null" | "obj" (or "list").  *)
(* A cursor is a natural number, 0 standing for the falsy cursors None     *)
(* and "".  An exception is a state ("raised"), never a TLC failure.       *)
EXTENDS Integers, Sequences, FiniteSets, TLC

VARIABLES
    mode,       \* which entry point runs: "paginate" | "field" | "discover" | "sync"
    server,     \* the API behind request(): per parent id, its pages and its fault
    gen,        \* the frame of the running get_cards / get_table_records generator
    requests,   \* the queries request() has sent, in order
    yielded,    \* the nodes the generator has yielded to its caller, in order
    bad,        \* observation: the log lengths when a malformed page was received
    org,        \* the organization as the organization query returns it
    dpc,        \* where get_dynamic_streams / discover_schemas stands
    di,         \* the index of its running for loop
    all_fields, \* its local variable all_fields (unbound until first assigned)
    entries,    \* its local variable entries
    schema,     \* the schema append_property_schema was last applied to
    field,      \* the field it was applied with, and the schema before the call
    CATALOG,    \* the catalog of the run: stream id -> schema, for the streams it holds
    pc,         \* where sync_organization stands
    idx,        \* the index of its running for loop (members, pipes, tables)
    out         \* the messages written to the output sink, in order

pvars == <<mode, server, gen, requests, yielded, bad>>
dvars == <<org, dpc, di, all_fields, entries, schema, field>>
svars == <<CATALOG, pc, idx, out>>
vars == <<pvars, dvars, svars>>

None == "None"

(***************************************************************************)
(* Bounds of the model.                                                    *)
(***************************************************************************)
MaxPages == 3
MaxEdges == 2
\* The paginator of a non-advancing server never stops by itself: the
\* request log is cut some requests after the longest well-behaved run.
MaxRequests == MaxPages + 3

(***************************************************************************)
(* Program constants.                                                      *)
(***************************************************************************)
MAX_PAGE_SIZE == 50
CONFIG_page_size == 5

RECURSIVE Str(_)
Digits == <<"0", "1", "2", "3", "4", "5", "6", "7", "8", "9">>
\* "{}".format(n) for a natural number n
Str(n) == IF n < 10 THEN Digits[n + 1] ELSE Str(n \div 10) \o Digits[(n % 10) + 1]

Min(a, b) == IF a < b THEN a ELSE b
Max(a, b) == IF a > b THEN a ELSE b

Range(q) == {q[k] : k \in 1..Len(q)}

RECURSIVE Flatten(_)
Flatten(ss) == IF ss = <<>> THEN <<>> ELSE Head(ss) \o Flatten(Tail(ss))

(***************************************************************************)
(* The API as the paginators see it.                                       *)
(***************************************************************************)
Faults == {"none", "stuck_same", "stuck_empty", "empty",
           "data_absent", "data_null", "coll_absent", "coll_null",
           "pageInfo_absent", "pageInfo_null", "edges_absent", "edges_null"}
StuckFaults == {"stuck_same", "stuck_empty"}
MalformedFaults == Faults \ ({"none"} \cup StuckFaults)

\* The page a query asks for: the first one without an after fragment, else
\* the one that follows the page whose endCursor the fragment carries.
PageAsked(query) == IF query.after.present THEN query.after.cursor + 1 ELSE 1

\* The response of the API to one pagination query. sc is the scenario of
\* the query's parent: its pages (a sequence of sequences of nodes), a fault
\* and the page the fault is on. Page i of a well-behaved API carries
\* endCursor i and hasNextPage iff a page follows.
Respond(sc, query) ==
    LET n == Len(sc.pages)
        asked == PageAsked(query)
        i == IF asked > n THEN n ELSE asked
        stuck == sc.fault \in StuckFaults
        hit == sc.fault \in MalformedFaults /\ i = sc.faultPage
        tag(key) == IF hit /\ sc.fault = key \o "_absent" THEN "absent"
                    ELSE IF hit /\ sc.fault = key \o "_null" THEN "null"
                    ELSE "obj"
    IN  [data |-> IF hit /\ sc.fault = "empty" THEN "absent" ELSE tag("data"),
         coll |-> tag("coll"),
         pageInfo |-> tag("pageInfo"),
         hasNextPage |-> IF stuck THEN TRUE ELSE i < n,
         endCursor |-> IF sc.fault = "stuck_empty" THEN 0
                       ELSE IF sc.fault = "stuck_same" THEN Min(i, sc.faultPage)
                       ELSE i,
         edges |-> tag("edges"),
         nodes |-> sc.pages[i]]

(***************************************************************************)
(* get_after, get_query, the body of the paginators' loop.                 *)
(***************************************************************************)
get_after_always_empty(end_cursor) == [present |-> FALSE, cursor |-> 0]

\* 'after: "{}", '.format(end_cursor) if end_cursor else ""
get_after(end_cursor) ==
    IF end_cursor # 0 THEN [present |-> TRUE, cursor |-> end_cursor]
    ELSE [present |-> FALSE, cursor |-> 0]

\* get_query(key, params) with the params the paginators build
PageQuery(key, parent, end_cursor) ==
    [key |-> key, parent |-> parent,
     page_size |-> Max(1, Min(CONFIG_page_size, MAX_PAGE_SIZE)),
     after |-> get_after(end_cursor)]

\* record.pop("record_fields", []); {field["field"]["id"]: field["value"]};
\* update({"__id": record["id"]})
process_table_record(record) ==
    LET fs == record.record_fields
        ids == {fs[k].field.id : k \in 1..Len(fs)} \cup {"__id"}
        \* a dict comprehension keeps, for a repeated key, the last value
        last(id) == CHOOSE k \in 1..Len(fs) :
                       /\ fs[k].field.id = id
                       /\ \A m \in (k + 1)..Len(fs) : fs[m].field.id # id
    IN  [id \in ids |-> IF id = "__id" THEN record.id ELSE fs[last(id)].value]

\* What a yielded node is: the node itself (get_cards), or
\* process_table_record of it (get_table_records).
Emit(key, node) == IF key = "table_records" THEN process_table_record(node) ELSE node

\* resp.get("data", {}) ... page_info.get("endCursor", ""), and the node list.
\* A .get on None and the iteration of a null edge list raise.
ParsePage(resp) ==
    LET dataEmpty == resp.data = "absent"
        collEmpty == dataEmpty \/ resp.coll = "absent"
        infoEmpty == collEmpty \/ resp.pageInfo = "absent"
        edgesEmpty == collEmpty \/ resp.edges = "absent"
        raised == \/ resp.data = "null"
                  \/ ~dataEmpty /\ resp.coll = "null"
                  \/ ~collEmpty /\ resp.pageInfo = "null"
                  \/ ~collEmpty /\ resp.edges = "null"
    IN  [raised |-> raised,
         has_next_page |-> IF infoEmpty THEN FALSE ELSE resp.hasNextPage,
         end_cursor |-> IF infoEmpty THEN 0 ELSE resp.endCursor,
         nodes |-> IF edgesEmpty THEN <<>> ELSE resp.nodes]

IdleGen == [key |-> "cards", parent |-> "", has_next_page |-> FALSE,
            end_cursor |-> 0, pending |-> <<>>, st |-> "idle"]

\* The call get_cards(pipe_id) / get_table_records(table_id): end_cursor=None,
\* has_next_page = True.
NewGen(key, parent) ==
    [key |-> key, parent |-> parent, has_next_page |-> TRUE,
     end_cursor |-> 0, pending |-> <<>>, st |-> "running"]

\* One pass of the while loop up to its for loop: the query, the response
\* and the page read from it.
GenAfterFetch(g, resp) ==
    LET p == ParsePage(resp)
    IN  IF p.raised THEN [g EXCEPT !.st = "raised"]
        ELSE [g EXCEPT !.has_next_page = p.has_next_page,
                       !.end_cursor = p.end_cursor,
                       !.pending = p.nodes]

CanFetch(g) == g.st = "running" /\ g.pending = <<>> /\ g.has_next_page
CanYield(g) == g.st = "running" /\ g.pending # <<>>
CanFinish(g) == g.st = "running" /\ g.pending = <<>> /\ ~g.has_next_page

Malformed(resp) ==
    \/ resp.data # "obj"
    \/ resp.coll # "obj"
    \/ resp.pageInfo # "obj"
    \/ resp.edges # "obj"

(***************************************************************************)
(* Schema derivation.  A schema is [properties, required, raised]:         *)
(* properties maps a property name to its property schema, required is the *)
(* list schema["required"], raised tells that building it raised.          *)
(***************************************************************************)
NUMERIC_TYPES == {"currency", "number"}
INTEGER_TYPES == {"id"}
DATE_TYPES == {"date", "datetime", "due_date"}
\* the two adjacent literals joined without the blank between them
STRING_TYPES_joined ==
    {"cnpj", "cpf", "email", "phone", "radio_horizontal", "radio_vertical",
     "select", "short_text", "long_text", "label_select", "statementtime"}
STRING_TYPES ==
    {"cnpj", "cpf", "email", "phone", "radio_horizontal", "radio_vertical",
     "select", "short_text", "long_text", "label_select", "statement", "time"}

\* {"type": "object", "properties": {}, "required": []}
EmptySchema == [properties |-> <<>>, required |-> <<>>, raised |-> FALSE]

\* A field is [id, type, required, has_is_multiple, is_multiple]: the key
\* is_multiple is in the field iff has_is_multiple.
append_property_schema(sch, f) ==
    LET required == IF f.required THEN Append(sch.required, f.id) ELSE sch.required
        t0 == IF f.required THEN <<>> ELSE <<"null">>
        stringish == f.type \in (STRING_TYPES \cup DATE_TYPES)
        \* field["is_multiple"] is read only when the type test is false
        keyError == ~stringish /\ ~f.has_is_multiple
        t1 == IF stringish \/ (f.has_is_multiple /\ f.is_multiple)
              THEN Append(t0, "string") ELSE t0
        t2 == IF f.type \in NUMERIC_TYPES THEN Append(t1, "number") ELSE t1
        t3 == IF f.type \in INTEGER_TYPES \/ f.type = "integer"
              THEN Append(t2, "integer") ELSE t2
        property_schema ==
            [inclusion |-> "automatic", type |-> t3,
             format |-> IF f.type \in DATE_TYPES THEN "date-time" ELSE None]
    IN  IF sch.raised THEN sch
        ELSE IF keyError
        THEN [properties |-> sch.properties, required |-> required, raised |-> TRUE]
        ELSE [properties |-> (f.id :> property_schema) @@ sch.properties,
              required |-> required, raised |-> FALSE]

RECURSIVE AppendAll(_, _)
\* for field in fields: append_property_schema(schema, field)
AppendAll(sch, fields) ==
    IF fields = <<>> THEN sch
    ELSE AppendAll(append_property_schema(sch, Head(fields)), Tail(fields))

record_id_field ==
    [id |-> "__id", type |-> "integer", required |-> TRUE,
     has_is_multiple |-> TRUE, is_multiple |-> FALSE]

\* table.get("table_fields", []), the record id field appended, every field
\* derived in list order
get_schema_for_table(table) ==
    AppendAll(EmptySchema, Append(table.table_fields, record_id_field))

\* {field["id"]: field for field in all_fields}, as the list of its values in
\* the dict's order: a key stands where it first occurred and holds the
\* field of its last occurrence.
unique_fields(fields) ==
    LET n == Len(fields)
        firsts == {k \in 1..n : \A m \in 1..(k - 1) : fields[m].id # fields[k].id}
        last(id) == CHOOSE k \in 1..n :
                       /\ fields[k].id = id
                       /\ \A m \in (k + 1)..n : fields[m].id # id
        RECURSIVE pick(_)
        pick(k) == IF k > n THEN <<>>
                   ELSE IF k \in firsts THEN <<fields[last(fields[k].id)]>> \o pick(k + 1)
                   ELSE pick(k + 1)
    IN  pick(1)

\* for field in fields.values(): append_property_schema(schema, field)
get_schema_for_fields(fields) == AppendAll(EmptySchema, fields)

\* schema2["properties"].update(schema1["properties"]); return schema2
combine_schemas(schema1, schema2) ==
    [schema2 EXCEPT !.properties = schema1.properties @@ schema2.properties]

\* load_static_schema("cards"): the fixed part of the cards schema, every
\* property tagged with inclusion automatic
static_cards_schema ==
    [properties |->
        [p \in {"id", "title", "created_at"} |->
            [inclusion |-> "automatic",
             type |-> IF p = "id" THEN <<"string">> ELSE <<"null", "string">>,
             format |-> IF p = "created_at" THEN "date-time" ELSE None]],
     required |-> <<>>, raised |-> FALSE]

SyncIdle ==
    /\ CATALOG = <<>>
    /\ pc = "idle"
    /\ idx = 0
    /\ out = <<>>

\* discovery does not run (org apart)
DiscoveryIdleBut ==
    /\ dpc = "idle"
    /\ di = 0
    /\ all_fields = [bound |-> FALSE, v |-> <<>>]
    /\ entries = <<>>
    /\ schema = EmptySchema
    /\ field = [applied |-> FALSE]

DiscoveryIdle ==
    /\ org = [data |-> "absent", pipes |-> <<>>, tables |-> <<>>]
    /\ dpc = "idle"
    /\ di = 0
    /\ all_fields = [bound |-> FALSE, v |-> <<>>]
    /\ entries = <<>>
    /\ schema = EmptySchema
    /\ field = [applied |-> FALSE]

(***************************************************************************)
(* The paginator alone: one call of get_cards or get_table_records.        *)
(***************************************************************************)
\* Node number k of a parent, as the cards query and the table_records query
\* return it.
PlainNode(key, k) ==
    IF key = "table_records"
    THEN [id |-> Str(k),
          record_fields |-> <<[field |-> [id |-> "t1", type |-> "select"],
                               value |-> "v" \o Str(k)]>>]
    ELSE [id |-> Str(k)]

\* n pages of e edges each, the nodes numbered in page order
PlainPages(key, n, e) ==
    [i \in 1..n |-> [j \in 1..e |-> PlainNode(key, (i - 1) * e + j)]]

Scenarios(key) ==
    {[pages |-> PlainPages(key, n, e), fault |-> f, faultPage |-> fp] :
        n \in 1..MaxPages, e \in 0..MaxEdges, f \in Faults, fp \in 1..MaxPages}

InitPaginate ==
    /\ mode = "paginate"
    /\ \E key \in {"cards", "table_records"} :
         \E sc \in Scenarios(key) :
            /\ sc.faultPage <= Len(sc.pages)
            /\ sc.fault = "none" => sc.faultPage = 1
            /\ sc.fault = "stuck_empty" => sc.faultPage = 1
            /\ server = [p \in {"1"} |-> sc]
            /\ gen = NewGen(key, "1")
    /\ requests = <<>>
    /\ yielded = <<>>
    /\ bad = [seen |-> FALSE, requests |-> 0, yielded |-> 0]
    /\ DiscoveryIdle
    /\ SyncIdle

\* while has_next_page: query, request, read the page
Fetch ==
    /\ CanFetch(gen)
    /\ Len(requests) < MaxRequests
    /\ LET query == PageQuery(gen.key, gen.parent, gen.end_cursor)
           resp == Respond(server[query.parent], query)
       IN  /\ requests' = Append(requests, query)
           /\ gen' = GenAfterFetch(gen, resp)
           /\ bad' = IF ~bad.seen /\ Malformed(resp)
                     THEN [seen |-> TRUE, requests |-> Len(requests) + 1,
                           yielded |-> Len(yielded)]
                     ELSE bad
    /\ UNCHANGED <<mode, server, yielded, dvars, svars>>

\* for card in get_nodes(cards): yield card
YieldNode ==
    /\ CanYield(gen)
    /\ yielded' = Append(yielded, Emit(gen.key, Head(gen.pending)))
    /\ gen' = [gen EXCEPT !.pending = Tail(gen.pending)]
    /\ UNCHANGED <<mode, server, requests, bad, dvars, svars>>

\* has_next_page is false: the generator returns
Finish ==
    /\ CanFinish(gen)
    /\ gen' = [gen EXCEPT !.st = "done"]
    /\ UNCHANGED <<mode, server, requests, yielded, bad, dvars, svars>>

NextPaginate == Fetch \/ YieldNode \/ Finish

SpecPaginate == InitPaginate /\ [][NextPaginate]_vars


PaginatorIdle ==
    /\ server = <<>>
    /\ gen = IdleGen
    /\ requests = <<>>
    /\ yielded = <<>>
    /\ bad = [seen |-> FALSE, requests |-> 0, yielded |-> 0]

(***************************************************************************)
(* append_property_schema alone, on every field definition.                *)
(***************************************************************************)
\* the vocabulary of field types, and one type outside it
FieldTypes ==
    {"currency", "number", "id", "date", "datetime", "due_date", "cnpj", "cpf",
     "email", "phone", "radio_horizontal", "radio_vertical", "select",
     "short_text", "long_text", "label_select", "statement", "time", "integer",
     "attachment"}

FieldDefs ==
    [id : {"a", "b"}, type : FieldTypes, required : BOOLEAN,
     has_is_multiple : BOOLEAN, is_multiple : BOOLEAN]

InitField ==
    /\ mode = "field"
    /\ PaginatorIdle
    /\ SyncIdle
    /\ org = [data |-> "absent", pipes |-> <<>>, tables |-> <<>>]
    /\ dpc = "idle"
    /\ di = 0
    /\ all_fields = [bound |-> FALSE, v |-> <<>>]
    /\ entries = <<>>
    /\ field = [applied |-> FALSE]
    /\ schema \in {EmptySchema,
                   append_property_schema(EmptySchema,
                       [id |-> "a", type |-> "short_text", required |-> TRUE,
                        has_is_multiple |-> TRUE, is_multiple |-> FALSE])}

\* schema = append_property_schema(schema, field)
AppendProperty ==
    /\ mode = "field"
    /\ ~field.applied
    /\ \E f \in FieldDefs :
          /\ f.has_is_multiple \/ ~f.is_multiple
          /\ field' = [applied |-> TRUE, f |-> f, before |-> schema]
          /\ schema' = append_property_schema(schema, f)
    /\ UNCHANGED <<pvars, svars, org, dpc, di, all_fields, entries>>

NextField == AppendProperty

SpecField == InitField /\ [][NextField]_vars

(***************************************************************************)
(* Discovery: get_organization, get_dynamic_streams, discover_schemas.     *)
(***************************************************************************)
MaxPipes == 2
MaxPhaseFields == 2
MaxTables == 2

\* Field definitions as the organization query returns them for start
\* forms and phases: id, label, type, required, and no is_multiple.
PipeFieldDefs ==
    {[id |-> i, type |-> d[1], required |-> d[2],
      has_is_multiple |-> FALSE, is_multiple |-> FALSE] :
        i \in {"f1", "f2"},
        d \in {<<"short_text", TRUE>>, <<"short_text", FALSE>>, <<"currency", FALSE>>}}

\* ... and for tables: is_multiple is among the keys.
TableFieldDefs ==
    [id : {"t1"}, type : {"select", "date", "integer"}, required : BOOLEAN,
     has_is_multiple : {TRUE}, is_multiple : BOOLEAN]

SeqsUpTo(S, n) == UNION {[1..k -> S] : k \in 0..n}

PipeInputs ==
    [start_form_fields : SeqsUpTo(PipeFieldDefs, 1),
     phases : {<<[fields |-> fs]>> : fs \in SeqsUpTo(PipeFieldDefs, MaxPhaseFields)}]

\* the items of a list of the organization, with the ids base + 1,
\* base + 2, ... in list order; pipes have base 0, tables base 100
WithIds(base, items) == [k \in 1..Len(items) |-> [id |-> Str(base + k)] @@ items[k]]

f1_required_short_text ==
    [id |-> "f1", type |-> "short_text", required |-> TRUE,
     has_is_multiple |-> FALSE, is_multiple |-> FALSE]
f2_optional_currency ==
    [id |-> "f2", type |-> "currency", required |-> FALSE,
     has_is_multiple |-> FALSE, is_multiple |-> FALSE]
t1_required_select ==
    [id |-> "t1", type |-> "select", required |-> TRUE,
     has_is_multiple |-> TRUE, is_multiple |-> FALSE]

\* One pipe with phase fields f1 and f2, one table with table field t1.
ScenarioPipes ==
    WithIds(0, <<[start_form_fields |-> <<>>,
               phases |-> <<[fields |-> <<f1_required_short_text, f2_optional_currency>>]>>]>>)
ScenarioTables == WithIds(100, <<[table_fields |-> <<t1_required_select>>]>>)
ScenarioOrg == [data |-> "obj", pipes |-> ScenarioPipes, tables |-> ScenarioTables]

InitDiscover ==
    /\ mode = "discover"
    /\ PaginatorIdle
    /\ SyncIdle
    /\ \/ \E ps \in SeqsUpTo(PipeInputs, MaxPipes) :
             org = [data |-> "obj", pipes |-> WithIds(0, ps), tables |-> ScenarioTables]
       \/ \E ts \in SeqsUpTo([table_fields : SeqsUpTo(TableFieldDefs, 1)], MaxTables) :
             \E ps \in {ScenarioPipes,
                        WithIds(0, <<[start_form_fields |-> <<f1_required_short_text>>,
                                   phases |-> <<[fields |-> <<>>]>>]>>)} :
                org = [data |-> "obj", pipes |-> ps, tables |-> WithIds(100, ts)]
       \/ org = [data |-> "absent", pipes |-> <<>>, tables |-> <<>>]
    /\ dpc = "org"
    /\ di = 0
    /\ all_fields = [bound |-> FALSE, v |-> <<>>]
    /\ entries = <<>>
    /\ schema = EmptySchema
    /\ field = [applied |-> FALSE]

\* org = get_organization(...): resp.get("data", None), data.get(...) raises
\* on the empty object a failed request returns; pipes, tables popped.
DiscoverOrg ==
    /\ mode = "discover" /\ dpc = "org"
    /\ dpc' = IF org.data = "obj" THEN "pipes" ELSE "raised"
    /\ di' = 1
    /\ UNCHANGED <<pvars, svars, org, all_fields, entries, schema, field>>

\* the fields of every phase of the pipe, in phase order
PhaseFields(pipe) == Flatten([k \in 1..Len(pipe.phases) |-> pipe.phases[k].fields])

\* what one pass of "for pipe in pipes" leaves in all_fields: the name is
\* bound anew to the pipe's start_form_fields, the phases' fields appended
PipeFields(prev, pipe) ==
    [bound |-> TRUE, v |-> pipe.start_form_fields \o PhaseFields(pipe)]

\* one pass of: for pipe in pipes
DiscoverPipe ==
    /\ mode = "discover" /\ dpc = "pipes"
    /\ di <= Len(org.pipes)
    /\ all_fields' = PipeFields(all_fields, org.pipes[di])
    /\ di' = di + 1
    /\ UNCHANGED <<pvars, svars, org, dpc, entries, schema, field>>

\* unique_fields ... entries.append(cards_entry); reading all_fields raises
\* when no pipe has bound it
DiscoverCards ==
    /\ mode = "discover" /\ dpc = "pipes"
    /\ di > Len(org.pipes)
    /\ IF ~all_fields.bound
       THEN dpc' = "raised" /\ UNCHANGED <<entries, schema>>
       ELSE LET dynamic_cards_schema == get_schema_for_fields(unique_fields(all_fields.v))
                cards_schema == combine_schemas(static_cards_schema, dynamic_cards_schema)
            IN  /\ schema' = cards_schema
                /\ IF cards_schema.raised
                   THEN dpc' = "raised" /\ UNCHANGED entries
                   ELSE /\ dpc' = "tables"
                        /\ entries' = Append(entries,
                               [tap_stream_id |-> "cards", key_properties |-> <<"id">>,
                                schema |-> cards_schema])
    /\ di' = 1
    /\ UNCHANGED <<pvars, svars, org, all_fields, field>>

\* one pass of: for table in tables
DiscoverTable ==
    /\ mode = "discover" /\ dpc = "tables"
    /\ di <= Len(org.tables)
    /\ LET table == org.tables[di]
           sch == get_schema_for_table(table)
       IN  /\ schema' = sch
           /\ IF sch.raised
              THEN dpc' = "raised" /\ UNCHANGED entries
              ELSE /\ dpc' = dpc
                   /\ entries' = Append(entries,
                          [tap_stream_id |-> "table_" \o table.id,
                           key_properties |-> <<"__id">>, schema |-> sch])
    /\ di' = di + 1
    /\ UNCHANGED <<pvars, svars, org, all_fields, field>>

\* return entries; discover_schemas returns the static streams and them
DiscoverReturn ==
    /\ mode = "discover" /\ dpc = "tables"
    /\ di > Len(org.tables)
    /\ dpc' = "done"
    /\ UNCHANGED <<pvars, svars, org, di, all_fields, entries, schema, field>>

NextDiscover ==
    DiscoverOrg \/ DiscoverPipe \/ DiscoverCards \/ DiscoverTable \/ DiscoverReturn

SpecDiscover == InitDiscover /\ [][NextDiscover]_vars

(***************************************************************************)
(* Sync: sync_organization, write_members, write_pipes_and_cards,          *)
(* write_tables_and_records.                                               *)
(***************************************************************************)
MaxMembers == 2

Valid == "2020-01-15T10:00:00-05:00"
Invalid == "not-a-date"

\* pendulum.parse(date).in_timezone("UTC") through singer.utils.strftime, on
\* the timestamps of the model; any other string does not parse
ParsedUTC ==
    [d \in {Valid, "2020-01-15T15:00:00.000000Z"} |-> "2020-01-15T15:00:00.000000Z"]

\* the function returns None without parsing when date is falsy, and lets
\* the parser's exception through
format_date(date) ==
    IF date \in {None, ""} THEN [raised |-> FALSE, value |-> None]
    ELSE IF date \in DOMAIN ParsedUTC THEN [raised |-> FALSE, value |-> ParsedUTC[date]]
    ELSE [raised |-> TRUE, value |-> None]

transform_datetimes_hook(data, typ, psch) ==
    IF typ = "string" /\ psch.format = "date-time" THEN format_date(data)
    ELSE [raised |-> FALSE, value |-> data]

\* Transformer(pre_hook=...) on one property: the types of its schema are
\* tried in order, null last; the hook runs before each try; null takes None
\* and "", a date-time string must not be None, any other type takes any
\* value but None (a numeric id converts to the same numeral). No type
\* taking the value is a SchemaMismatch.
RECURSIVE TryTypes(_, _, _)
TryTypes(data, types, psch) ==
    IF types = <<>> THEN [raised |-> TRUE, value |-> None]
    ELSE LET typ == Head(types)
             hooked == transform_datetimes_hook(data, typ, psch)
         IN  IF hooked.raised THEN hooked
             ELSE IF typ = "null"
             THEN IF hooked.value \in {None, ""}
                  THEN [raised |-> FALSE, value |-> None]
                  ELSE TryTypes(data, Tail(types), psch)
             ELSE IF hooked.value # None THEN hooked
             ELSE TryTypes(data, Tail(types), psch)

NullLast(types) ==
    IF \E k \in 1..Len(types) : types[k] = "null"
    THEN SelectSeq(types, LAMBDA t : t # "null") \o <<"null">>
    ELSE types

\* xform.transform(record, schema): the keys the schema declares are kept and
\* transformed, the others removed
Transform(record, sch) ==
    LET keys == DOMAIN record \cap DOMAIN sch.properties
        t(k) == TryTypes(record[k], NullLast(sch.properties[k].type), sch.properties[k])
    IN  [raised |-> \E k \in keys : t(k).raised,
         rec |-> [k \in keys |-> t(k).value]]

\* obj.pop(id_name, {}).pop("id", {}); a related object is [id |-> ...]
get_id_from_object(obj, id_name) ==
    IF id_name \in DOMAIN obj THEN obj[id_name].id ELSE None

Without(rec, key) == [k \in DOMAIN rec \ {key} |-> rec[k]]

\* user = member.pop("user"); member.update(user)
FlatMember(member) == member.user @@ Without(member, "user")

\* card["pipe_id"] = card["id"] in the place of pipe["id"]
ProcessedCard_own_id(card, pipe_id) ==
    LET comments == [k \in 1..Len(card.comments) |->
                        ("author_id" :> get_id_from_object(card.comments[k], "author"))
                        @@ Without(card.comments[k], "author")]
    IN  ("pipe_id" :> card.id) @@ ("created_by" :> get_id_from_object(card, "created_by"))
        @@ ("comments" :> comments) @@ card

\* the card as lines 643-649 leave it
ProcessedCard(card, pipe_id) ==
    LET comments == [k \in 1..Len(card.comments) |->
                        ("author_id" :> get_id_from_object(card.comments[k], "author"))
                        @@ Without(card.comments[k], "author")]
    IN  ("pipe_id" :> pipe_id) @@ ("created_by" :> get_id_from_object(card, "created_by"))
        @@ ("comments" :> comments) @@ card

\* CATALOG.get_stream(stream) is not None
HasStream(stream) == stream \in DOMAIN CATALOG

\* write_catalog_schema(stream): a SCHEMA message if the catalog holds it
write_catalog_schema(sink, stream) ==
    IF HasStream(stream)
    THEN Append(sink, [type |-> "SCHEMA", stream |-> stream, schema |-> CATALOG[stream]])
    ELSE sink

\* singer.write_record(stream, record)
write_record(sink, stream, record) ==
    Append(sink, [type |-> "RECORD", stream |-> stream, record |-> record])

TableStream(table_id) == "table_" \o table_id

\* A schema of a static stream as a catalog carries it.
CatalogSchema(props, dates) ==
    [properties |->
        [p \in props |-> [inclusion |-> "automatic", type |-> <<"null", "string">>,
                          format |-> IF p \in dates THEN "date-time" ELSE None]],
     required |-> <<>>, raised |-> FALSE]

\* The catalog discovery gives for an organization: the four fixed streams
\* and one stream per table.
StreamsOf(o) ==
    {"members", "pipes", "cards", "tables"} \cup
    {TableStream(o.tables[k].id) : k \in 1..Len(o.tables)}

FullCatalog(o) ==
    [st \in StreamsOf(o) |->
        IF st = "members" THEN CatalogSchema({"id", "role_name", "created_at"}, {"created_at"})
        ELSE IF st = "pipes" THEN CatalogSchema({"id", "created_at"}, {"created_at"})
        ELSE IF st = "cards"
        THEN CatalogSchema({"id", "pipe_id", "created_by", "created_at"}, {"created_at"})
        ELSE IF st = "tables" THEN CatalogSchema({"id"}, {})
        ELSE get_schema_for_table(
                 CHOOSE t \in Range(o.tables) : TableStream(t.id) = st)]

Restrict(f, S) == [x \in S |-> f[x]]

\* The date of record k of a stream: badd names the stream whose first record
\* carries another value than a valid timestamp.
DateAt(badd, stream, k) ==
    IF badd.stream = stream /\ k = 1 THEN badd.value ELSE Valid

t1_optional_date ==
    [id |-> "t1", type |-> "date", required |-> FALSE,
     has_is_multiple |-> TRUE, is_multiple |-> FALSE]

SyncOrgOf(nm, np, nt, badd) ==
    [data |-> "obj",
     members |-> [k \in 1..nm |->
                    [user |-> [id |-> Str(200 + k),
                               created_at |-> DateAt(badd, "members", k)],
                     role_name |-> "admin"]],
     pipes |-> WithIds(0, [k \in 1..np |-> [created_at |-> DateAt(badd, "pipes", k)]]),
     tables |-> WithIds(100, [k \in 1..nt |-> [table_fields |-> <<t1_optional_date>>]])]

CardNode(pipe_id, k, badd) ==
    [id |-> pipe_id \o "0" \o Str(k),
     created_at |-> DateAt(badd, "cards", k),
     created_by |-> [id |-> "201"],
     comments |-> <<[id |-> "9", author |-> [id |-> "201"]]>>]

RecordNode(table_id, k, badd) ==
    [id |-> table_id \o "0" \o Str(k),
     record_fields |-> <<[field |-> [id |-> "t1", type |-> "date"],
                          value |-> DateAt(badd, "records", k)]>>]

\* every pipe and every table with n pages of e edges, and the fault
SyncServerOf(o, n, e, fault, badd) ==
    LET pipeIds == {o.pipes[k].id : k \in 1..Len(o.pipes)}
        tableIds == {o.tables[k].id : k \in 1..Len(o.tables)}
    IN  [p \in pipeIds \cup tableIds |->
            [pages |-> [i \in 1..n |-> [j \in 1..e |->
                          IF p \in pipeIds THEN CardNode(p, (i - 1) * e + j, badd)
                          ELSE RecordNode(p, (i - 1) * e + j, badd)]],
             fault |-> fault, faultPage |-> 1]]

NoBadDate == [stream |-> "none", value |-> Valid]

\* What record_fields of a record of the table with the required field t1
\* can carry: t1 with a value, no entry at all, t1 with a null value, or t1
\* and an entry of a field the table does not define.
RecordShapes == {"filled", "missing", "null", "other"}

ShapedRecord(table_id, k, shape) ==
    LET t1(v) == [field |-> [id |-> "t1", type |-> "select"], value |-> v]
    IN  [id |-> table_id \o "0" \o Str(k),
         record_fields |->
            IF shape = "filled" THEN <<t1("a")>>
            ELSE IF shape = "missing" THEN <<>>
            ELSE IF shape = "null" THEN <<t1(None)>>
            ELSE <<t1("a"), [field |-> [id |-> "t9", type |-> "short_text"],
                            value |-> "b"]>>]

InitSync ==
    /\ mode = "sync"
    /\ \/ \E nm \in 0..MaxMembers, np \in 0..MaxPipes, nt \in 0..MaxTables,
             n \in 1..MaxPages, e \in 0..MaxEdges, fault \in {"none", "empty"} :
             /\ org = SyncOrgOf(nm, np, nt, NoBadDate)
             /\ server = SyncServerOf(org, n, e, fault, NoBadDate)
             /\ CATALOG = FullCatalog(org)
       \/ \E e \in 0..1 :
             /\ org = SyncOrgOf(1, 1, 1, NoBadDate)
             /\ server = SyncServerOf(org, 1, e, "none", NoBadDate)
             /\ \E held \in SUBSET StreamsOf(org) :
                   CATALOG = Restrict(FullCatalog(org), held)
       \/ \E st \in {"members", "pipes", "cards", "records"},
             v \in {Invalid, None, ""} :
             /\ org = SyncOrgOf(2, 2, 2, [stream |-> st, value |-> v])
             /\ server = SyncServerOf(org, 1, 2, "none", [stream |-> st, value |-> v])
             /\ CATALOG = FullCatalog(org)
       \/ \E s1 \in RecordShapes, s2 \in RecordShapes :
             /\ org = [SyncOrgOf(1, 1, 1, NoBadDate) EXCEPT !.tables = ScenarioTables]
             /\ server = [SyncServerOf(org, 1, 1, "none", NoBadDate) EXCEPT
                             ![ScenarioTables[1].id].pages =
                                <<<<ShapedRecord(ScenarioTables[1].id, 1, s1),
                                    ShapedRecord(ScenarioTables[1].id, 2, s2)>>>>]
             /\ CATALOG = FullCatalog(org)
       \/ /\ org = [data |-> "absent", members |-> <<>>, pipes |-> <<>>, tables |-> <<>>]
          /\ server = <<>>
          /\ CATALOG = <<>>
    /\ gen = IdleGen
    /\ requests = <<>>
    /\ yielded = <<>>
    /\ bad = [seen |-> FALSE, requests |-> 0, yielded |-> 0]
    /\ DiscoveryIdleBut
    /\ pc = "org"
    /\ idx = 0
    /\ out = <<>>

\* org = get_organization(organization_id): data.get on the None that an
\* empty response gives raises; members, pipes, tables popped
SyncOrg ==
    /\ mode = "sync" /\ pc = "org"
    /\ pc' = IF org.data = "obj" THEN "write_members" ELSE "crashed"
    /\ UNCHANGED <<pvars, dvars, CATALOG, idx, out>>

\* write_members: the stream looked up, its schema written
MembersSchema ==
    /\ pc = "write_members"
    /\ out' = write_catalog_schema(out, "members")
    /\ pc' = "members"
    /\ idx' = 1
    /\ UNCHANGED <<pvars, dvars, CATALOG>>

\* one pass of: for member in members
WriteMember ==
    /\ pc = "members" /\ idx <= Len(org.members)
    /\ IF ~HasStream("members")
       THEN pc' = "crashed" /\ UNCHANGED <<out, idx>>
       ELSE LET t == Transform(FlatMember(org.members[idx]), CATALOG["members"])
            IN  IF t.raised
                THEN pc' = "crashed" /\ UNCHANGED <<out, idx>>
                ELSE /\ out' = write_record(out, "members", t.rec)
                     /\ idx' = idx + 1
                     /\ pc' = pc
    /\ UNCHANGED <<pvars, dvars, CATALOG>>

MembersDone ==
    /\ pc = "members" /\ idx > Len(org.members)
    /\ pc' = "write_pipes"
    /\ UNCHANGED <<pvars, dvars, CATALOG, idx, out>>

\* write_pipes_and_cards: both streams looked up, both schemas written
PipesSchema ==
    /\ pc = "write_pipes"
    /\ out' = write_catalog_schema(write_catalog_schema(out, "pipes"), "cards")
    /\ pc' = "pipes"
    /\ idx' = 1
    /\ UNCHANGED <<pvars, dvars, CATALOG>>

\* one pass of "for pipe in pipes" up to cards = list(get_cards(pipe["id"]))
WritePipe ==
    /\ pc = "pipes" /\ idx <= Len(org.pipes)
    /\ IF ~HasStream("pipes")
       THEN pc' = "crashed" /\ UNCHANGED <<out, gen>>
       ELSE LET t == Transform(org.pipes[idx], CATALOG["pipes"])
            IN  IF t.raised
                THEN pc' = "crashed" /\ UNCHANGED <<out, gen>>
                ELSE /\ out' = write_record(out, "pipes", t.rec)
                     /\ gen' = NewGen("cards", t.rec["id"])
                     /\ pc' = "cards_list"
    /\ UNCHANGED <<mode, server, requests, yielded, bad, dvars, CATALOG, idx>>

\* the running generator asks for its next page
SyncFetch ==
    /\ pc \in {"cards_list", "cards", "records"}
    /\ CanFetch(gen)
    /\ LET query == PageQuery(gen.key, gen.parent, gen.end_cursor)
           resp == Respond(server[query.parent], query)
       IN  /\ requests' = Append(requests, query)
           /\ gen' = GenAfterFetch(gen, resp)
           /\ pc' = IF ParsePage(resp).raised THEN "crashed" ELSE pc
    /\ UNCHANGED <<mode, server, yielded, bad, dvars, CATALOG, idx, out>>

\* list(get_cards(...)) takes a card
ListCard ==
    /\ pc = "cards_list" /\ CanYield(gen)
    /\ gen' = [gen EXCEPT !.pending = Tail(gen.pending)]
    /\ UNCHANGED <<mode, server, requests, yielded, bad, dvars, svars>>

\* the list is complete and saved; for card in get_cards(pipe["id"]) calls
\* the generator anew
ListDone ==
    /\ pc = "cards_list" /\ CanFinish(gen)
    /\ gen' = NewGen("cards", gen.parent)
    /\ pc' = "cards"
    /\ UNCHANGED <<mode, server, requests, yielded, bad, dvars, CATALOG, idx, out>>

\* one pass of: for card in get_cards(pipe["id"])
WriteCard ==
    /\ pc = "cards" /\ CanYield(gen)
    /\ gen' = [gen EXCEPT !.pending = Tail(gen.pending)]
    /\ IF ~HasStream("cards")
       THEN pc' = "crashed" /\ UNCHANGED out
       ELSE LET card == ProcessedCard(Emit(gen.key, Head(gen.pending)), gen.parent)
                t == Transform(card, CATALOG["cards"])
            IN  IF t.raised
                THEN pc' = "crashed" /\ UNCHANGED out
                ELSE out' = write_record(out, "cards", t.rec) /\ pc' = pc
    /\ UNCHANGED <<mode, server, requests, yielded, bad, dvars, CATALOG, idx>>

\* the pipe's cards are written: the next pipe
CardsDone ==
    /\ pc = "cards" /\ CanFinish(gen)
    /\ gen' = IdleGen
    /\ idx' = idx + 1
    /\ pc' = "pipes"
    /\ UNCHANGED <<mode, server, requests, yielded, bad, dvars, CATALOG, out>>

PipesDone ==
    /\ pc = "pipes" /\ idx > Len(org.pipes)
    /\ pc' = "write_tables"
    /\ UNCHANGED <<pvars, dvars, CATALOG, idx, out>>

\* write_tables_and_records: the nodes of tables, the tables schema written
TablesSchema ==
    /\ pc = "write_tables"
    /\ out' = write_catalog_schema(out, "tables")
    /\ pc' = "tables"
    /\ idx' = 1
    /\ UNCHANGED <<pvars, dvars, CATALOG>>

\* one pass of "for table in tables" up to the call of get_table_records
WriteTable ==
    /\ pc = "tables" /\ idx <= Len(org.tables)
    /\ IF ~HasStream("tables")
       THEN pc' = "crashed" /\ UNCHANGED <<out, gen>>
       ELSE LET t == Transform(org.tables[idx], CATALOG["tables"])
            IN  IF t.raised
                THEN pc' = "crashed" /\ UNCHANGED <<out, gen>>
                ELSE /\ out' = write_catalog_schema(write_record(out, "tables", t.rec),
                                                    TableStream(t.rec["id"]))
                     /\ gen' = NewGen("table_records", t.rec["id"])
                     /\ pc' = "records"
    /\ UNCHANGED <<mode, server, requests, yielded, bad, dvars, CATALOG, idx>>

\* one pass of: for table_record in get_table_records(table["id"])
WriteRecord ==
    /\ pc = "records" /\ CanYield(gen)
    /\ gen' = [gen EXCEPT !.pending = Tail(gen.pending)]
    /\ IF ~HasStream(TableStream(gen.parent))
       THEN pc' = "crashed" /\ UNCHANGED out
       ELSE LET t == Transform(Emit(gen.key, Head(gen.pending)),
                               CATALOG[TableStream(gen.parent)])
            IN  IF t.raised
                THEN pc' = "crashed" /\ UNCHANGED out
                ELSE out' = write_record(out, TableStream(gen.parent), t.rec) /\ pc' = pc
    /\ UNCHANGED <<mode, server, requests, yielded, bad, dvars, CATALOG, idx>>

\* the table's records are written: the next table
RecordsDone ==
    /\ pc = "records" /\ CanFinish(gen)
    /\ gen' = IdleGen
    /\ idx' = idx + 1
    /\ pc' = "tables"
    /\ UNCHANGED <<mode, server, requests, yielded, bad, dvars, CATALOG, out>>

TablesDone ==
    /\ pc = "tables" /\ idx > Len(org.tables)
    /\ pc' = "done"
    /\ UNCHANGED <<pvars, dvars, CATALOG, idx, out>>

NextSync ==
    \/ SyncOrg \/ MembersSchema \/ WriteMember \/ MembersDone
    \/ PipesSchema \/ WritePipe \/ SyncFetch \/ ListCard \/ ListDone
    \/ WriteCard \/ CardsDone \/ PipesDone
    \/ TablesSchema \/ WriteTable \/ WriteRecord \/ RecordsDone \/ TablesDone

SpecSync == InitSync /\ [][NextSync]_vars

(***************************************************************************)
(* Claims about the paginator (SpecPaginate).                              *)
(***************************************************************************)
IsPrefix(s, t) == Len(s) <= Len(t) /\ s = SubSeq(t, 1, Len(s))

Occurrences(x, s) == Cardinality({k \in 1..Len(s) : s[k] = x})

\* The nodes of every page of the call's parent in page order and, within a
\* page, in edge order, each as the generator hands it out.
ExpectedNodes ==
    LET all == Flatten(server[gen.parent].pages)
    IN  [k \in 1..Len(all) |-> Emit(gen.key, all[k])]

WellBehaved == mode = "paginate" /\ server[gen.parent].fault = "none"

\* C1: against a server of N >= 1 pages of K edges each (hasNextPage true on
\* all pages but the last, a fresh endCursor on each), one call of get_cards
\* or get_table_records never raises, sends at most N requests, has at every
\* moment yielded a prefix of the server's nodes in page-then-edge order,
\* and asks for no page after the N-th; when it has ended it has yielded
\* exactly the N*K nodes, each exactly once.
C1_PaginationComplete ==
    WellBehaved =>
        LET n == Len(server[gen.parent].pages)
            e == Len(server[gen.parent].pages[1])
        IN  /\ gen.st # "raised"
            /\ Len(requests) <= n
            /\ IsPrefix(yielded, ExpectedNodes)
            /\ (Len(requests) = n /\ gen.pending = <<>>) => ~gen.has_next_page
            /\ gen.st = "done" =>
                  /\ Len(yielded) = n * e
                  /\ yielded = ExpectedNodes
                  /\ \A k \in 1..(n * e) : Occurrences(ExpectedNodes[k], yielded) = 1

\* A call that has ended after several pages of several nodes each.
C1_Witness ==
    /\ WellBehaved
    /\ gen.st = "done"
    /\ Len(server[gen.parent].pages) >= 2
    /\ Len(yielded) >= 4
    /\ Len(requests) >= 2

Stuck == mode = "paginate" /\ server[gen.parent].fault \in StuckFaults

\* C2: against a server that always answers hasNextPage = true, the
\* paginator takes an endCursor that is empty, or the same as that of the
\* page before, as the end of the stream: it sends no request after such a
\* page. So no request after the first goes without an after fragment, and
\* no two consecutive requests carry the same after fragment.
C2_StopsOnStuckCursor ==
    Stuck =>
        \A k \in 2..Len(requests) :
            /\ requests[k].after.present
            /\ requests[k].after # requests[k - 1].after

\* C9: once a pagination request has returned an empty object or a response
\* with an expected key missing or null, the generator yields no further
\* node, sends no further request and does not raise.
C9_MalformedPageIsTerminal ==
    (mode = "paginate" /\ bad.seen) =>
        /\ gen.st # "raised"
        /\ Len(requests) = bad.requests
        /\ Len(yielded) = bad.yielded

(***************************************************************************)
(* Claims about schema derivation (SpecField, SpecDiscover).               *)
(***************************************************************************)
InSeq(x, q) == \E k \in 1..Len(q) : q[k] = x

\* C7: for every field definition that carries is_multiple, of any type of
\* the vocabulary or of an unrecognized one, append_property_schema does not
\* raise and gives the field's property a type list that holds null iff the
\* field is not required (null then first), string iff the type is a string
\* type or a date type or is_multiple is true, number iff the type is
\* currency or number, integer iff the type is id or integer, and nothing
\* else; the format is date-time iff the type is a date type; the field id
\* is appended to the required list iff the field is required.
C7_FieldSchemaDerivation ==
    (mode = "field" /\ field.applied /\ field.f.has_is_multiple) =>
        LET f == field.f
            dates == {"date", "datetime", "due_date"}
            strings == {"cnpj", "cpf", "email", "phone", "radio_horizontal",
                        "radio_vertical", "select", "short_text", "long_text",
                        "label_select", "statement", "time"}
        IN  /\ ~schema.raised
            /\ f.id \in DOMAIN schema.properties
            /\ LET p == schema.properties[f.id]
               IN  /\ InSeq("null", p.type) <=> ~f.required
                   /\ InSeq("null", p.type) => p.type[1] = "null"
                   /\ InSeq("string", p.type) <=>
                         (f.type \in strings \cup dates \/ f.is_multiple)
                   /\ InSeq("number", p.type) <=> f.type \in {"currency", "number"}
                   /\ InSeq("integer", p.type) <=> f.type \in {"id", "integer"}
                   /\ \A k \in 1..Len(p.type) :
                         /\ p.type[k] \in {"null", "string", "number", "integer"}
                         /\ Occurrences(p.type[k], p.type) = 1
                   /\ (p.format = "date-time") <=> f.type \in dates
            /\ schema.required =
                  IF f.required THEN Append(field.before.required, f.id)
                  ELSE field.before.required
            /\ \A q \in DOMAIN field.before.properties \ {f.id} :
                  /\ q \in DOMAIN schema.properties
                  /\ schema.properties[q] = field.before.properties[q]

\* An optional multiple field of type time has been derived.
C7_Witness ==
    /\ mode = "field"
    /\ field.applied
    /\ field.f.type = "time" /\ ~field.f.required
    /\ field.f.has_is_multiple /\ field.f.is_multiple
    /\ ~schema.raised
    /\ schema.properties[field.f.id].type = <<"null", "string">>

\* the field ids of the start form and of every phase of every pipe
AllPipeFieldIds ==
    UNION {{f.id : f \in Range(org.pipes[k].start_form_fields \o PhaseFields(org.pipes[k]))} :
              k \in 1..Len(org.pipes)}

CardsBuilt == mode = "discover" /\ dpc \in {"tables", "done"}

\* C5: whatever the number of pipes, discovery does not fail, and the cards
\* schema it builds has the static card properties and every field id of
\* every pipe's start form and phases.
C5_CardSchemaCoversAllPipes ==
    (mode = "discover" /\ org.data = "obj") =>
        /\ dpc # "raised"
        /\ CardsBuilt =>
              /\ entries[1].tap_stream_id = "cards"
              /\ DOMAIN static_cards_schema.properties \subseteq
                    DOMAIN entries[1].schema.properties
              /\ AllPipeFieldIds \subseteq DOMAIN entries[1].schema.properties

\* C6: the property the cards schema holds for a field id is the one derived
\* from the first field of that id in all_fields, the concatenation of the
\* start form fields and each phase's fields (whenever that field derives).
C6_FirstSeenWins ==
    (CardsBuilt /\ all_fields.bound) =>
        \A k \in 1..Len(all_fields.v) :
            (\A m \in 1..(k - 1) : all_fields.v[m].id # all_fields.v[k].id) =>
                LET f == all_fields.v[k]
                    first == append_property_schema(EmptySchema, f)
                IN  \/ first.raised
                    \/ /\ f.id \in DOMAIN entries[1].schema.properties
                       /\ entries[1].schema.properties[f.id] = first.properties[f.id]

EntryOf(stream) ==
    {entries[k] : k \in {m \in 1..Len(entries) : entries[m].tap_stream_id = stream}}

\* C8: for the organization with one pipe of phase fields f1 (required,
\* short_text) and f2 (optional, currency) and one table of table field t1
\* (required, select), discovery completes; its cards schema has f1 with
\* string and without null and f2 with null and number, its table_101 schema
\* has t1 with string and __id with integer, __id required.
C8_EndToEndDiscovery ==
    (mode = "discover" /\ org = ScenarioOrg) =>
        /\ dpc # "raised"
        /\ dpc = "done" =>
              /\ \E c \in EntryOf("cards") :
                    /\ {"f1", "f2"} \subseteq DOMAIN c.schema.properties
                    /\ InSeq("string", c.schema.properties["f1"].type)
                    /\ ~InSeq("null", c.schema.properties["f1"].type)
                    /\ InSeq("null", c.schema.properties["f2"].type)
                    /\ InSeq("number", c.schema.properties["f2"].type)
              /\ \E t \in EntryOf("table_101") :
                    /\ {"t1", "__id"} \subseteq DOMAIN t.schema.properties
                    /\ InSeq("string", t.schema.properties["t1"].type)
                    /\ InSeq("integer", t.schema.properties["__id"].type)
                    /\ InSeq("__id", t.schema.required)

(***************************************************************************)
(* Claims about the sync run (SpecSync).                                   *)
(***************************************************************************)
Records == SelectSeq(out, LAMBDA m : m.type = "RECORD")

SchemaCount(stream) ==
    Cardinality({k \in 1..Len(out) : out[k].type = "SCHEMA" /\ out[k].stream = stream})

\* C3: in a sync run, whatever streams the catalog holds, no RECORD message
\* of a stream is written before a SCHEMA message of that stream, no stream's
\* SCHEMA message is written twice, and a run that has completed has written
\* the SCHEMA message of every stream of the organization.
C3_SchemaBeforeRecords ==
    mode = "sync" =>
        /\ \A k \in 1..Len(out) :
              out[k].type = "RECORD" =>
                 \E j \in 1..(k - 1) :
                    out[j].type = "SCHEMA" /\ out[j].stream = out[k].stream
        /\ \A st \in StreamsOf(org) : SchemaCount(st) <= 1
        /\ pc = "done" => \A st \in StreamsOf(org) : SchemaCount(st) = 1

\* members: 1, pipes and cards: 2, tables and the table streams: 3
Rank(stream) ==
    IF stream = "members" THEN 1 ELSE IF stream \in {"pipes", "cards"} THEN 2 ELSE 3

\* the last record of a stream among the first k records
LastOf(recs, stream, k) ==
    LET at == {j \in 1..k : recs[j].stream = stream}
    IN  IF at = {} THEN 0 ELSE CHOOSE j \in at : \A m \in at : m <= j

IdsOf(recs, stream) ==
    LET own == SelectSeq(recs, LAMBDA m : m.stream = stream)
    IN  [k \in 1..Len(own) |-> own[k].record["id"]]

\* the (stream, id) of every record a complete run writes, in the order the
\* claim gives
RECURSIVE ExpectedOrder(_, _)
NodeRecords(stream, parent) ==
    LET nodes == Flatten(server[parent].pages)
    IN  [k \in 1..Len(nodes) |-> <<stream, nodes[k].id>>]
ExpectedOrder(kind, k) ==
    IF kind = "members"
    THEN [j \in 1..Len(org.members) |-> <<"members", org.members[j].user.id>>]
    ELSE IF kind = "pipes"
    THEN IF k > Len(org.pipes) THEN <<>>
         ELSE <<<<"pipes", org.pipes[k].id>>>> \o NodeRecords("cards", org.pipes[k].id)
              \o ExpectedOrder(kind, k + 1)
    ELSE IF k > Len(org.tables) THEN <<>>
         ELSE <<<<"tables", org.tables[k].id>>>>
              \o NodeRecords(TableStream(org.tables[k].id), org.tables[k].id)
              \o ExpectedOrder(kind, k + 1)

RecordOrder ==
    [k \in 1..Len(Records) |->
        <<Records[k].stream,
          IF "__id" \in DOMAIN Records[k].record THEN Records[k].record["__id"]
          ELSE Records[k].record["id"]>>]

FaultFree == \A p \in DOMAIN server : server[p].fault = "none"

\* C4: in the sequence of the RECORD messages of a sync run no members
\* record follows a pipes or cards record and no pipes or cards record
\* follows a tables or table_<id> record; the pipes records and the tables
\* records come in API list order; every cards record follows the record of
\* its pipe with no other pipe's record between, every table_<id> record
\* follows the record of table <id> with no other table's record between;
\* and against a server without faults the sequence is at every moment a
\* prefix of: all members, then per pipe its record and all its cards in
\* page order, then per table its record and all its records, and is all of
\* it when the run has completed.
C4_StreamOrder ==
    mode = "sync" =>
        LET recs == Records
        IN  /\ \A k \in 2..Len(recs) : Rank(recs[k - 1].stream) <= Rank(recs[k].stream)
            /\ IsPrefix(IdsOf(recs, "pipes"), [k \in 1..Len(org.pipes) |-> org.pipes[k].id])
            /\ IsPrefix(IdsOf(recs, "tables"), [k \in 1..Len(org.tables) |-> org.tables[k].id])
            /\ \A k \in 1..Len(recs) :
                  /\ recs[k].stream = "cards" =>
                        /\ LastOf(recs, "pipes", k) > 0
                        /\ "pipe_id" \in DOMAIN recs[k].record
                        /\ recs[k].record["pipe_id"] =
                              recs[LastOf(recs, "pipes", k)].record["id"]
                  /\ Rank(recs[k].stream) = 3 /\ recs[k].stream # "tables" =>
                        /\ LastOf(recs, "tables", k) > 0
                        /\ recs[k].stream =
                              TableStream(recs[LastOf(recs, "tables", k)].record["id"])
            /\ (FaultFree /\ org.data = "obj") =>
                  LET all == ExpectedOrder("members", 1) \o ExpectedOrder("pipes", 1)
                             \o ExpectedOrder("tables", 1)
                  IN  /\ IsPrefix(RecordOrder, all)
                      /\ pc = "done" => RecordOrder = all

\* A completed run over two pipes and two tables of several nodes each.
C4_Witness ==
    /\ mode = "sync" /\ pc = "done" /\ FaultFree
    /\ Len(org.members) >= 2 /\ Len(org.pipes) >= 2 /\ Len(org.tables) >= 2
    /\ Len(IdsOf(Records, "cards")) >= 8
    /\ Len(Records) >= 22

\* C10: a sync run with the full catalog against a server without faults is
\* not ended by a date that does not parse: every record is written, its
\* date-time properties null or in the UTC form.
C10_DateFailureNotFatal ==
    (mode = "sync" /\ org.data = "obj" /\ FaultFree /\ CATALOG = FullCatalog(org)) =>
        /\ pc # "crashed"
        /\ pc = "done" =>
              Len(Records) = Len(ExpectedOrder("members", 1) \o ExpectedOrder("pipes", 1)
                                 \o ExpectedOrder("tables", 1))
        /\ \A k \in 1..Len(Records) :
              \A p \in DOMAIN Records[k].record :
                 CATALOG[Records[k].stream].properties[p].format = "date-time" =>
                    Records[k].record[p] \in {None, "2020-01-15T15:00:00.000000Z"}

\* C11: every RECORD message of a sync run follows a SCHEMA message of its
\* stream, carries only properties that schema declares, and carries every
\* property of that schema's required list with a value other than null: a
\* table_<id> record has a non-null __id, and no table_<id> record is
\* written without a required field of its table.
C11_RecordConformsToSchema ==
    mode = "sync" =>
        \A k \in 1..Len(out) :
           out[k].type = "RECORD" =>
              \E j \in 1..(k - 1) :
                 /\ out[j].type = "SCHEMA" /\ out[j].stream = out[k].stream
                 /\ DOMAIN out[k].record \subseteq DOMAIN out[j].schema.properties
                 /\ \A p \in Range(out[j].schema.required) :
                       p \in DOMAIN out[k].record /\ out[k].record[p] # None

\* the requests of one pipe's cards or one table's records, in sending order
RequestsOf(parent) == SelectSeq(requests, LAMBDA q : q.parent = parent)

PipeIds == {org.pipes[k].id : k \in 1..Len(org.pipes)}

\* C12: during one sync run, for every pipe and every table, the requests
\* sent for its pages are one per server page: the first carries no after
\* fragment, each later one carries the endCursor of the response before
\* it, no page is asked for twice, and against a server without faults
\* there are never more requests than pages and, once the run has
\* completed, exactly as many.
C12_OneRequestPerPage ==
    mode = "sync" =>
        \A p \in DOMAIN server :
           LET rs == RequestsOf(p)
           IN  /\ \A k \in 1..Len(rs) :
                     /\ rs[k].key = IF p \in PipeIds THEN "cards" ELSE "table_records"
                     /\ IF k = 1 THEN ~rs[k].after.present
                        ELSE rs[k].after =
                                [present |-> TRUE,
                                 cursor |-> Respond(server[p], rs[k - 1]).endCursor]
               /\ \A j \in 1..Len(rs), k \in 1..Len(rs) :
                     j # k => PageAsked(rs[j]) # PageAsked(rs[k])
               /\ FaultFree => Len(rs) <= Len(server[p].pages)
               /\ (FaultFree /\ pc = "done") => Len(rs) = Len(server[p].pages)

=============================================================================
